---- MODULE Spec2Model ----
(***************************************************************************)
(* Web-Agent: the perceive / decide / act loop of WebAgent.run_task        *)
(* (agent.py), the action grammar and validator of ActionParser            *)
(* (actions.py), the dispatch of BrowserController.execute_action          *)
(* (browser.py) and the prompt history of VisionLanguageModel              *)
(* (inference.py).                                                         *)
(*                                                                         *)
(* Texts are sequences of one-character strings, so that the regular       *)
(* expressions of the parser are computed position by position.            *)
(***************************************************************************)
EXTENDS Integers, Sequences, FiniteSets, TLC

(***************************************************************************)
(* Characters and character classes of Python's re module, restricted to   *)
(* the ASCII characters the texts below are made of.                       *)
(***************************************************************************)
Uppers == <<"A","B","C","D","E","F","G","H","I","J","K","L","M",
            "N","O","P","Q","R","S","T","U","V","W","X","Y","Z">>
Lowers == <<"a","b","c","d","e","f","g","h","i","j","k","l","m",
            "n","o","p","q","r","s","t","u","v","w","x","y","z">>
DigitChars == <<"0","1","2","3","4","5","6","7","8","9">>

Range(s) == {s[k] : k \in DOMAIN s}

\* re.IGNORECASE compares characters by their lower-case form.
Lower(c) ==
    IF \E k \in DOMAIN Uppers : Uppers[k] = c
    THEN Lowers[CHOOSE k \in DOMAIN Uppers : Uppers[k] = c]
    ELSE c

\* \d
IsDigit(c) == c \in Range(DigitChars)
\* \s
IsSpace(c) == c \in {" ", "\n", "\t", "\r"}
\* \w
IsWord(c) == c \in Range(Uppers) \cup Range(Lowers) \cup Range(DigitChars) \cup {"_"}
\* ['\"]
IsQuote(c) == c \in {"'", "\""}

DigitVal(c) == (CHOOSE k \in DOMAIN DigitChars : DigitChars[k] = c) - 1

\* s[a..b] as a sequence (empty when b < a).
Slice(s, a, b) == [k \in 1..(b - a + 1) |-> s[a + k - 1]]

\* A literal of the pattern (given in lower case) matches s at position i.
LitAt(s, i, lit) ==
    /\ i >= 1
    /\ i + Len(lit) - 1 <= Len(s)
    /\ \A k \in DOMAIN lit : Lower(s[i + k - 1]) = lit[k]

\* The position after the longest run of class characters that starts at i
\* (i itself when s[i] is not in the class): a greedy X* or X+.
RECURSIVE DigitRunEnd(_, _)
DigitRunEnd(s, i) ==
    IF i <= Len(s) /\ IsDigit(s[i]) THEN DigitRunEnd(s, i + 1) ELSE i
RECURSIVE SpaceRunEnd(_, _)
SpaceRunEnd(s, i) ==
    IF i <= Len(s) /\ IsSpace(s[i]) THEN SpaceRunEnd(s, i + 1) ELSE i
RECURSIVE WordRunEnd(_, _)
WordRunEnd(s, i) ==
    IF i <= Len(s) /\ IsWord(s[i]) THEN WordRunEnd(s, i + 1) ELSE i

\* int() of a run of digits.
RECURSIVE ParseInt(_)
ParseInt(ds) ==
    IF Len(ds) = 0 THEN 0
    ELSE 10 * ParseInt(SubSeq(ds, 1, Len(ds) - 1)) + DigitVal(ds[Len(ds)])

RECURSIVE Pow10(_)
Pow10(n) == IF n = 0 THEN 1 ELSE 10 * Pow10(n - 1)

\* str.strip() and str.lower()
RECURSIVE LStrip(_)
LStrip(s) == IF Len(s) > 0 /\ IsSpace(s[1]) THEN LStrip(Tail(s)) ELSE s
RECURSIVE RStrip(_)
RStrip(s) ==
    IF Len(s) > 0 /\ IsSpace(s[Len(s)]) THEN RStrip(SubSeq(s, 1, Len(s) - 1)) ELSE s
Strip(s) == RStrip(LStrip(s))
\* Variant: the text is kept in the case it has.
LowerStrKept(s) == s
LowerStr(s) == [k \in DOMAIN s |-> Lower(s[k])]

(***************************************************************************)
(* actions.py: Action, ActionParser.PATTERNS, parse, _create_action        *)
(***************************************************************************)
\* The literal heads of the patterns, in lower case.
LitThought == <<"t","h","o","u","g","h","t",":">>
LitAction  == <<"a","c","t","i","o","n",":">>
LitNlAction == <<"\n">> \o LitAction
LitClick  == <<"c","l","i","c","k","(">>
LitType   == <<"t","y","p","e","(">>
LitScroll == <<"s","c","r","o","l","l","(">>
LitWait   == <<"w","a","i","t","(">>
LitPress  == <<"p","r","e","s","s","(">>
LitFinish == <<"f","i","n","i","s","h","(",")">>
LitFail   == <<"f","a","i","l","(">>

\* Optional[Action]: None, and the dataclass Action(type, params, reasoning).
\* params is the dict in insertion order, a sequence of <<key, value>>.
None == [type |-> "none", params |-> <<>>, reasoning |-> <<>>]
Action(type, params, reasoning) ==
    [type |-> type, params |-> params, reasoning |-> reasoning]
Param(a, key) ==
    (a.params[CHOOSE k \in DOMAIN a.params : a.params[k][1] = key])[2]

\* Action.__str__: "<type.value>(k=v, ...)", the reasoning is not part of it.
ActionStr(a) == [name |-> a.type, args |-> a.params]

NoMatch == [ok |-> FALSE, g1 |-> <<>>, g2 |-> <<>>]
Matched(g1, g2) == [ok |-> TRUE, g1 |-> g1, g2 |-> g2]

\* click\((\d+),\s*(\d+)\) at position i
ClickAt(t, i) ==
    IF ~LitAt(t, i, LitClick) THEN NoMatch
    ELSE LET a  == i + Len(LitClick)
             d1 == DigitRunEnd(t, a)
             w  == SpaceRunEnd(t, d1 + 1)
             d2 == DigitRunEnd(t, w)
         IN  IF /\ d1 > a /\ d1 <= Len(t) /\ t[d1] = ","
                /\ d2 > w /\ d2 <= Len(t) /\ t[d2] = ")"
             THEN Matched(Slice(t, a, d1 - 1), Slice(t, w, d2 - 1))
             ELSE NoMatch

\* kw\(['\"](.+?)['\"]\) at position i: the lazy group ends at the first
\* place, at least one character on, that a quote and ")" follow.
QuotedAt(t, i, lit) ==
    IF ~LitAt(t, i, lit) THEN NoMatch
    ELSE LET q == i + Len(lit)
             g == q + 1
             Ends == {e \in g..(Len(t) - 2) : IsQuote(t[e + 1]) /\ t[e + 2] = ")"}
         IN  IF q <= Len(t) /\ IsQuote(t[q]) /\ Ends # {}
             THEN Matched(Slice(t, g, CHOOSE e \in Ends : \A f \in Ends : e <= f), <<>>)
             ELSE NoMatch
TypeAt(t, i) == QuotedAt(t, i, LitType)
FailAt(t, i) == QuotedAt(t, i, LitFail)

\* scroll\((\w+)(?:,\s*(\d+))?\) at position i
ScrollAt(t, i) ==
    IF ~LitAt(t, i, LitScroll) THEN NoMatch
    ELSE LET a  == i + Len(LitScroll)
             w  == WordRunEnd(t, a)
             sp == SpaceRunEnd(t, w + 1)
             d  == DigitRunEnd(t, sp)
         IN  IF w = a \/ w > Len(t) THEN NoMatch
             ELSE IF t[w] = ")" THEN Matched(Slice(t, a, w - 1), <<>>)
             ELSE IF t[w] = "," /\ d > sp /\ d <= Len(t) /\ t[d] = ")"
                  THEN Matched(Slice(t, a, w - 1), Slice(t, sp, d - 1))
             ELSE NoMatch

\* wait\((\d+(?:\.\d+)?)\) at position i; g1 the integer digits, g2 the
\* fraction digits (empty when there is no fraction).
WaitAt(t, i) ==
    IF ~LitAt(t, i, LitWait) THEN NoMatch
    ELSE LET a  == i + Len(LitWait)
             d1 == DigitRunEnd(t, a)
             d2 == DigitRunEnd(t, d1 + 1)
         IN  IF d1 = a \/ d1 > Len(t) THEN NoMatch
             ELSE IF t[d1] = ")" THEN Matched(Slice(t, a, d1 - 1), <<>>)
             ELSE IF t[d1] = "." /\ d2 > d1 + 1 /\ d2 <= Len(t) /\ t[d2] = ")"
                  THEN Matched(Slice(t, a, d1 - 1), Slice(t, d1 + 1, d2 - 1))
             ELSE NoMatch

\* press\(['\"](\w+)['\"]\) at position i
PressAt(t, i) ==
    IF ~LitAt(t, i, LitPress) THEN NoMatch
    ELSE LET q == i + Len(LitPress)
             g == q + 1
             w == WordRunEnd(t, g)
         IN  IF /\ q <= Len(t) /\ IsQuote(t[q]) /\ w > g
                /\ w + 1 <= Len(t) /\ IsQuote(t[w]) /\ t[w + 1] = ")"
             THEN Matched(Slice(t, g, w - 1), <<>>)
             ELSE NoMatch

\* finish\(\) at position i
FinishAt(t, i) == IF LitAt(t, i, LitFinish) THEN Matched(<<>>, <<>>) ELSE NoMatch

\* Variant: the dict has no entry for FINISH.
PatternOrderNoFinish == <<"click", "type", "scroll", "wait", "press", "fail">>

\* ActionParser.PATTERNS, in the order of the dict.
PatternOrder == <<"click", "type", "scroll", "wait", "press", "finish", "fail">>
PatternAt(kind, t, i) ==
    CASE kind = "click"  -> ClickAt(t, i)
      [] kind = "type"   -> TypeAt(t, i)
      [] kind = "scroll" -> ScrollAt(t, i)
      [] kind = "wait"   -> WaitAt(t, i)
      [] kind = "press"  -> PressAt(t, i)
      [] kind = "finish" -> FinishAt(t, i)
      [] kind = "fail"   -> FailAt(t, i)

\* re.search(pattern, t, re.IGNORECASE): the match at the leftmost position
\* at or after i.
RECURSIVE SearchFrom(_, _, _)
MatchOrNext(m, kind, t, i) == IF m.ok THEN m ELSE SearchFrom(kind, t, i + 1)
SearchFrom(kind, t, i) ==
    IF i > Len(t) THEN NoMatch
    ELSE MatchOrNext(PatternAt(kind, t, i), kind, t, i)
Search(kind, t) == SearchFrom(kind, t, 1)

\* ActionParser._create_action.  A float is kept exact: num / den.
Float(intDigits, fracDigits) ==
    [num |-> ParseInt(intDigits \o fracDigits), den |-> Pow10(Len(fracDigits))]

_create_action(action_type, match, reasoning) ==
    CASE action_type = "click" ->
           Action("click", << <<"x", ParseInt(match.g1)>>,
                              <<"y", ParseInt(match.g2)>> >>, reasoning)
      [] action_type = "type" ->
           Action("type", << <<"text", match.g1>> >>, reasoning)
      [] action_type = "scroll" ->
           Action("scroll",
                  << <<"direction", LowerStr(match.g1)>>,
                     <<"amount", IF Len(match.g2) > 0 THEN ParseInt(match.g2) ELSE 500>> >>,
                  reasoning)
      [] action_type = "wait" ->
           Action("wait", << <<"seconds", Float(match.g1, match.g2)>> >>, reasoning)
      [] action_type = "press" ->
           Action("press", << <<"key", match.g1>> >>, reasoning)
      [] action_type = "finish" ->
           Action("finish", <<>>, reasoning)
      [] action_type = "fail" ->
           Action("fail", << <<"reason", match.g1>> >>, reasoning)

\* The first position at or after i where the literal matches, 0 if none.
RECURSIVE FindLit(_, _, _)
FindLit(s, lit, i) ==
    IF i > Len(s) THEN 0
    ELSE IF LitAt(s, i, lit) THEN i
    ELSE FindLit(s, lit, i + 1)

\* re.search(r"Thought:\s*(.+?)(?=\nAction:|$)", text, DOTALL | IGNORECASE)
\* followed by group(1).strip(); empty when there is no match.
\* The lazy group, which starts at p, ends at the first e that the end of
\* the text, its last newline, or "\nAction:" follows.
RECURSIVE ThoughtEnd(_, _)
ThoughtEnd(text, e) ==
    IF \/ e >= Len(text)
       \/ e + 1 = Len(text) /\ text[Len(text)] = "\n"
       \/ LitAt(text, e + 1, LitNlAction)
    THEN e
    ELSE ThoughtEnd(text, e + 1)
\* Variant: group(1) is kept as matched, without strip().
ThoughtGroupRaw(text, p) ==
    IF p > Len(text) THEN <<text[Len(text)]>>
    ELSE Slice(text, p, ThoughtEnd(text, p))

\* p is where the greedy \s* stops; when that is the end of the text, \s*
\* gives back its last character to the group.
ThoughtGroup(text, p) ==
    IF p > Len(text) THEN Strip(<<text[Len(text)]>>)
    ELSE Strip(Slice(text, p, ThoughtEnd(text, p)))
\* i is the first "Thought:"; the group needs a character after it.
ThoughtAt(text, i) ==
    IF i = 0 \/ i + Len(LitThought) > Len(text) THEN <<>>
    ELSE ThoughtGroup(text, SpaceRunEnd(text, i + Len(LitThought)))
ThoughtOf(text) == ThoughtAt(text, FindLit(text, LitThought, 1))

\* re.search(r"Action:\s*(.+?)(?=\n|$)", text, IGNORECASE): found, and
\* group(1).strip().
RECURSIVE LineEnd(_, _)
LineEnd(text, e) ==
    IF e >= Len(text) \/ text[e + 1] = "\n" THEN e ELSE LineEnd(text, e + 1)
\* a is the position after "Action:" and p where the greedy \s* stops.  When
\* only white space follows, \s* gives back one character that is not a
\* newline, if there is one, and the group is that character.
ActionGroup(text, a, p) ==
    IF p > Len(text)
    THEN [found |-> \E q \in a..Len(text) : text[q] # "\n", text |-> <<>>]
    ELSE [found |-> TRUE, text |-> Strip(Slice(text, p, LineEnd(text, p)))]
ActionAt(text, i) ==
    IF i = 0 THEN [found |-> FALSE, text |-> <<>>]
    ELSE ActionGroup(text, i + Len(LitAction),
                     SpaceRunEnd(text, i + Len(LitAction)))
ActionLine(text) == ActionAt(text, FindLit(text, LitAction, 1))

\* Lines 66-71: the first pattern, from the k-th on, that matches somewhere
\* in the action text makes the action.
RECURSIVE MatchPatterns(_, _, _)
CreateOrNext(m, k, action_text, reasoning) ==
    IF m.ok THEN _create_action(PatternOrder[k], m, reasoning)
    ELSE MatchPatterns(k + 1, action_text, reasoning)
MatchPatterns(k, action_text, reasoning) ==
    IF k > Len(PatternOrder) THEN None
    ELSE CreateOrNext(Search(PatternOrder[k], action_text), k, action_text, reasoning)

\* ActionParser.parse
ParseLine(line, reasoning) ==
    IF ~line.found THEN None ELSE MatchPatterns(1, line.text, reasoning)
parse(text) == ParseLine(ActionLine(text), ThoughtOf(text))

\* Variant: the upper edges of the viewport are outside (x < width, y < height).
validate_action_exclusive(action, viewport_width, viewport_height) ==
    CASE action.type = "click" ->
           LET x == Param(action, "x")
               y == Param(action, "y")
           IN  IF ~(0 <= x /\ x < viewport_width /\ 0 <= y /\ y < viewport_height)
               THEN <<FALSE, <<"Click coordinates", x, y, "outside viewport",
                               viewport_width, viewport_height>> >>
               ELSE <<TRUE, <<>> >>
      [] action.type = "scroll" ->
           IF Param(action, "direction") \notin {<<"u","p">>, <<"d","o","w","n">>}
           THEN <<FALSE, <<"Invalid scroll direction", Param(action, "direction")>> >>
           ELSE <<TRUE, <<>> >>
      [] action.type = "wait" ->
           IF Param(action, "seconds").num > 10 * Param(action, "seconds").den
           THEN <<FALSE, <<"Wait time too long (max 10s)">> >>
           ELSE <<TRUE, <<>> >>
      [] OTHER -> <<TRUE, <<>> >>

\* Variant: the four directions of a wheel are let through.
validate_action_four_ways(action, viewport_width, viewport_height) ==
    CASE action.type = "click" ->
           LET x == Param(action, "x")
               y == Param(action, "y")
           IN  IF ~(0 <= x /\ x <= viewport_width /\ 0 <= y /\ y <= viewport_height)
               THEN <<FALSE, <<"Click coordinates", x, y, "outside viewport",
                               viewport_width, viewport_height>> >>
               ELSE <<TRUE, <<>> >>
      [] action.type = "scroll" ->
           IF Param(action, "direction") \notin
                {<<"u","p">>, <<"d","o","w","n">>, <<"l","e","f","t">>,
                 <<"r","i","g","h","t">>}
           THEN <<FALSE, <<"Invalid scroll direction", Param(action, "direction")>> >>
           ELSE <<TRUE, <<>> >>
      [] action.type = "wait" ->
           IF Param(action, "seconds").num > 10 * Param(action, "seconds").den
           THEN <<FALSE, <<"Wait time too long (max 10s)">> >>
           ELSE <<TRUE, <<>> >>
      [] OTHER -> <<TRUE, <<>> >>

\* Variant: a wait of 10 seconds is already too long (seconds >= 10).
validate_action_wait_ge(action, viewport_width, viewport_height) ==
    CASE action.type = "click" ->
           LET x == Param(action, "x")
               y == Param(action, "y")
           IN  IF ~(0 <= x /\ x <= viewport_width /\ 0 <= y /\ y <= viewport_height)
               THEN <<FALSE, <<"Click coordinates", x, y, "outside viewport",
                               viewport_width, viewport_height>> >>
               ELSE <<TRUE, <<>> >>
      [] action.type = "scroll" ->
           IF Param(action, "direction") \notin {<<"u","p">>, <<"d","o","w","n">>}
           THEN <<FALSE, <<"Invalid scroll direction", Param(action, "direction")>> >>
           ELSE <<TRUE, <<>> >>
      [] action.type = "wait" ->
           IF Param(action, "seconds").num >= 10 * Param(action, "seconds").den
           THEN <<FALSE, <<"Wait time too long (max 10s)">> >>
           ELSE <<TRUE, <<>> >>
      [] OTHER -> <<TRUE, <<>> >>

\* ActionParser.validate_action: <<valid, error message>>
validate_action(action, viewport_width, viewport_height) ==
    CASE action.type = "click" ->
           LET x == Param(action, "x")
               y == Param(action, "y")
           IN  IF ~(0 <= x /\ x <= viewport_width /\ 0 <= y /\ y <= viewport_height)
               THEN <<FALSE, <<"Click coordinates", x, y, "outside viewport",
                               viewport_width, viewport_height>> >>
               ELSE <<TRUE, <<>> >>
      [] action.type = "scroll" ->
           IF Param(action, "direction") \notin {<<"u","p">>, <<"d","o","w","n">>}
           THEN <<FALSE, <<"Invalid scroll direction", Param(action, "direction")>> >>
           ELSE <<TRUE, <<>> >>
      [] action.type = "wait" ->
           IF Param(action, "seconds").num > 10 * Param(action, "seconds").den
           THEN <<FALSE, <<"Wait time too long (max 10s)">> >>
           ELSE <<TRUE, <<>> >>
      [] OTHER -> <<TRUE, <<>> >>

(***************************************************************************)
(* config.py                                                               *)
(***************************************************************************)
VIEWPORT_WIDTH == 1280
VIEWPORT_HEIGHT == 720
\* The step budget.  config.py sets 15; the loop is the same for every
\* budget, and it is explored here for a smaller one.
MAX_STEPS == 7

(***************************************************************************)
(* The inputs of a run: what the collaborators answer.                     *)
(***************************************************************************)
\* The most hints the operator types during the life of the agent.
MaxHints == 1
\* The reader threads left blocked in input() are counted up to MaxStale.
MaxStale == 2

\* Replies of the provider (the "content" of the first choice).
\* 'Thought: go\nAction: click(5, 9)'
RespClick ==
    <<"T","h","o","u","g","h","t",":"," ","g","o","\n","A","c","t","i","o","n",":"," ","c","l","i","c","k","(","5",","," ","9",")">>
\* "Action: type('a')"
RespType ==
    <<"A","c","t","i","o","n",":"," ","t","y","p","e","(","'","a","'",")">>
\* 'Action: click(2000, 300)'
RespBadClick ==
    <<"A","c","t","i","o","n",":"," ","c","l","i","c","k","(","2","0","0","0",","," ","3","0","0",")">>
\* 'garbled'
RespGarbled ==
    <<"g","a","r","b","l","e","d">>
\* 'Action: finish()'
RespFinish ==
    <<"A","c","t","i","o","n",":"," ","f","i","n","i","s","h","(",")">>
\* "Action: fail('no')"
RespFail ==
    <<"A","c","t","i","o","n",":"," ","f","a","i","l","(","'","n","o","'",")">>
Responses == {RespClick, RespType, RespBadClick, RespGarbled, RespFinish, RespFail}

\* What predict_action returns: the content, which is a str, or null (JSON
\* null passes result["choices"][0]["message"]["content"] unchanged).
StrContent(text) == [content |-> "str", text |-> text]
NullContent == [content |-> "null", text |-> <<>>]
NoResponse == [content |-> "unset", text |-> <<>>]

\* Lines the operator types at the hint prompt, as readline() returns them.
HintLines == {<<"h", "\n">>, <<"\n">>}
HintGiven(text) == [given |-> TRUE, text |-> text]
NoHint == [given |-> FALSE, text |-> <<>>]

StartUrl == "https://start"
NextUrl == "https://next"
Task == "task"

(***************************************************************************)
(* inference.py: the history of the user message                           *)
(***************************************************************************)
\* Variant: history[:5], the oldest five.
FirstFive(history) ==
    IF Len(history) <= 5 THEN history ELSE SubSeq(history, 1, 5)

\* history[-5:]
LastFive(history) ==
    IF Len(history) <= 5 THEN history
    ELSE SubSeq(history, Len(history) - 5 + 1, Len(history))

\* VisionLanguageModel._build_user_message: the PREVIOUS ACTIONS block,
\* "None" or the numbered lines "<i+1>. <h>" of the last five entries.
_build_user_message(task, url, history) ==
    [task |-> task, url |-> url,
     previous_actions |->
        IF Len(history) = 0 THEN <<"None">>
        ELSE [k \in DOMAIN LastFive(history) |-> <<k, LastFive(history)[k]>>]]

NoMessage == [task |-> "", url |-> "", previous_actions |-> <<>>]

(***************************************************************************)
(* browser.py: BrowserController.execute_action                            *)
(***************************************************************************)
\* The message of a dispatch that raised nothing.
ExecMessage(action) ==
    CASE action.type = "click" ->
           <<"Clicked at", Param(action, "x"), Param(action, "y")>>
      [] action.type = "type" -> <<"Typed", Param(action, "text")>>
      [] action.type = "scroll" ->
           <<"Scrolled", Param(action, "direction"), Param(action, "amount")>>
      [] action.type = "wait" -> <<"Waited", Param(action, "seconds")>>
      [] action.type = "press" -> <<"Pressed", Param(action, "key")>>
      [] action.type = "finish" -> <<"Task complete">>
      [] action.type = "fail" -> <<"Failed", Param(action, "reason")>>

\* execute_action(action): <<success, message>>; raised tells whether the
\* page operation of the branch threw.
execute_action(action, raised) ==
    IF action.type \notin {"click", "type", "scroll", "wait", "press", "finish", "fail"}
    THEN <<FALSE, <<"Unknown action type">> >>
    ELSE IF raised /\ action.type \notin {"finish", "fail"}
    THEN <<FALSE, <<"Execution error">> >>
    ELSE <<TRUE, ExecMessage(action)>>

(***************************************************************************)
(* agent.py: WebAgent                                                      *)
(***************************************************************************)
VARIABLES
    pc,                 \* where run_task stands: "idle" (not called yet),
                        \* "navigate", "capture", "hint", "join", "predict",
                        \* "decide", "execute", "sleep", "returned", "raised"
    interactive,        \* self.interactive
    win32,              \* sys.platform == 'win32'
    predict_takes_hint, \* whether predict_action of self.model has the
                        \* user_hint parameter run_task passes by keyword
    page_url,           \* self.browser.page.url
    history,            \* self.history
    user_hints,         \* self.user_hints
    step,               \* the loop variable of run_task
    trajectory,         \* the local list of run_task
    screenshot,         \* local
    current_url,        \* local
    user_hint,          \* local
    response,           \* local
    action,             \* local
    exec_result,        \* local: <<exec_success, exec_msg>>
    result,             \* the dict run_task returned
    user_message,       \* the user message of the last request built
    inference_calls,    \* calls of predict_action made by the current run
    calls,              \* collaborator and helper calls of the current
                        \* iteration (of the run, before the loop), in order
    call,               \* a call of ActionParser.parse or validate_action
                        \* made on its own: the function and its arguments
    ret,                \* what that call returned
    reader,             \* input_thread of the iteration: "none", "running"
                        \* (blocked in input()) or "done"
    user_input,         \* the list input_thread appends to
    stale,              \* threads of earlier iterations still blocked in
                        \* input(), counted up to MaxStale
    holder              \* whose input() the next line entered goes to:
                        \* "none", "current" (input_thread) or "stale"

vars == <<pc, interactive, predict_takes_hint, page_url, history, user_hints,
          step, trajectory, screenshot, current_url, user_hint, response,
          action, exec_result, result, user_message, inference_calls, calls,
          call, ret, win32, reader, user_input, stale, holder>>

agent_vars == <<interactive, predict_takes_hint, win32>>
thread_vars == <<reader, user_input, stale, holder>>
call_vars == <<call, ret>>

\* No call of the parser on its own is under way.
NoCall == [fn |-> "none"]
NoRet == [returned |-> FALSE, value |-> <<>>]
Returned(v) == [returned |-> TRUE, value |-> v]

\* The dict run_task returns; keys tells which keys it has.
NoResult ==
    [keys |-> {}, success |-> FALSE, error |-> <<>>, steps |-> 0, trajectory |-> <<>>]
ResultSuccess(steps, traj) ==
    [keys |-> {"success", "steps", "trajectory"},
     success |-> TRUE, error |-> <<>>, steps |-> steps, trajectory |-> traj]
ResultFailure(error, steps, traj) ==
    [keys |-> {"success", "error", "steps", "trajectory"},
     success |-> FALSE, error |-> error, steps |-> steps, trajectory |-> traj]

ErrLoad == <<"Failed to load page">>
ErrInference(e) == <<"Model inference failed: ", e>>
ErrMaxSteps == <<"Max steps (", ToString(MAX_STEPS), ") exceeded">>

\* Exceptions predict_action raises by itself (inference.py:93-96), and the
\* one the call raises when the keyword user_hint binds to no parameter.
InferenceErrors == {"API request failed", "Unexpected API response format"}
TypeErrorHint == "predict_action() got an unexpected keyword argument 'user_hint'"

\* The trajectory entries of lines 184-189 / 202-207 and of lines 226-232.
TerminalEntry(n, a, url) ==
    [step |-> n, action |-> ActionStr(a), reasoning |-> a.reasoning, url |-> url]
\* Variant: the entries are numbered from 0 (step - 1).
ExecutedEntryZeroBased(n, a, url, msg) ==
    [step |-> n - 1, action |-> ActionStr(a), reasoning |-> a.reasoning, url |-> url,
     result |-> msg]

ExecutedEntry(n, a, url, msg) ==
    [step |-> n, action |-> ActionStr(a), reasoning |-> a.reasoning, url |-> url,
     result |-> msg]
\* f"{action} - {action.reasoning}"
HistoryEntry(a) == <<ActionStr(a), " - ", a.reasoning>>

NoShot == <<"none", "">>
NoExec == <<FALSE, <<>> >>

Init ==
    /\ pc = "idle"
    /\ interactive \in BOOLEAN
    /\ predict_takes_hint \in BOOLEAN
    /\ page_url = "about:blank"
    /\ history = <<>>
    /\ user_hints = <<>>
    /\ step = 0
    /\ trajectory = <<>>
    /\ screenshot = NoShot
    /\ current_url = ""
    /\ user_hint = NoHint
    /\ response = NoResponse
    /\ action = None
    /\ exec_result = NoExec
    /\ result = NoResult
    /\ user_message = NoMessage
    /\ inference_calls = 0
    /\ calls = <<>>
    /\ call = NoCall
    /\ ret = NoRet
    /\ win32 = FALSE
    /\ reader = "none"
    /\ user_input = <<>>
    /\ stale = 0
    /\ holder = "none"

\* The frame of run_task is gone: its locals hold nothing any more.
DropLocals ==
    /\ step' = 0
    /\ trajectory' = <<>>
    /\ screenshot' = NoShot
    /\ current_url' = ""
    /\ user_hint' = NoHint
    /\ response' = NoResponse
    /\ action' = None
    /\ exec_result' = NoExec

\* return result
Return(r) ==
    /\ pc' = "returned"
    /\ result' = r
    /\ DropLocals

\* An exception leaves run_task (nothing in it catches).
Raise ==
    /\ pc' = "raised"
    /\ result' = NoResult
    /\ DropLocals

\* The end of the loop body: the next iteration, or lines 237-247 when the
\* range is used up.
\* Variant: "steps" counts the recorded entries.
MaxStepsResultRecorded(traj) == ResultFailure(ErrMaxSteps, Len(traj), traj)

\* Lines 239-244.
MaxStepsResult(traj) == ResultFailure(ErrMaxSteps, MAX_STEPS, traj)

\* Variant: the range runs one step too far (range(1, MAX_STEPS + 2)).
NextIterationOneMore(traj, after) ==
    IF step <= MAX_STEPS
    THEN /\ pc' = "capture"
         /\ step' = step + 1
         /\ trajectory' = traj
         /\ response' = NoResponse
         /\ action' = None
         /\ exec_result' = NoExec
         /\ calls' = after
         /\ UNCHANGED <<screenshot, current_url, user_hint, result>>
    ELSE /\ Return(ResultFailure(ErrMaxSteps, MAX_STEPS, traj))
         /\ calls' = after

\* Variant: the loop has no upper end (while True) and the step number stays
\* at the budget.
NextIterationForever(traj, after) ==
    /\ pc' = "capture"
    /\ step' = IF step < MAX_STEPS THEN step + 1 ELSE step
    /\ trajectory' = traj
    /\ response' = NoResponse
    /\ action' = None
    /\ exec_result' = NoExec
    /\ calls' = after
    /\ UNCHANGED <<screenshot, current_url, user_hint, result>>

\* traj is the trajectory the body leaves and after the calls of the
\* iteration with its last one; response, action and exec_success are
\* assigned again before they are read.
NextIteration(traj, after) ==
    IF step < MAX_STEPS
    THEN /\ pc' = "capture"
         /\ step' = step + 1
         /\ trajectory' = traj
         /\ response' = NoResponse
         /\ action' = None
         /\ exec_result' = NoExec
         /\ calls' = after
         /\ UNCHANGED <<screenshot, current_url, user_hint, result>>
    ELSE /\ Return(MaxStepsResult(traj))
         /\ calls' = after

\* run_task(url, task) is called on the agent.
RunTask ==
    /\ pc \in {"idle", "returned", "raised"}
    /\ pc' = "navigate"
    /\ result' = NoResult
    /\ inference_calls' = 0
    /\ calls' = <<>>
    /\ DropLocals
    /\ UNCHANGED <<agent_vars, call_vars, thread_vars, page_url, history, user_hints, user_message>>

\* Variant: the navigation is counted as a step.
LoadFailureCounted == ResultFailure(ErrLoad, 1, <<>>)

\* Lines 72-77.
LoadFailure == ResultFailure(ErrLoad, 0, <<>>)

\* Variant: the history of the agent is not emptied when a run starts.
NavigateKeepsHistory ==
    /\ pc = "navigate"
    /\ calls' = Append(calls, "navigate")
    /\ \E loaded \in BOOLEAN :
         IF ~loaded
         THEN /\ Return(LoadFailure)
              /\ UNCHANGED <<page_url, history>>
         ELSE /\ page_url' = StartUrl
              /\ UNCHANGED history
              /\ trajectory' = <<>>
              /\ step' = 1
              /\ pc' = "capture"
              /\ UNCHANGED <<screenshot, current_url, user_hint, response, action,
                             exec_result, result>>
    /\ UNCHANGED <<agent_vars, call_vars, thread_vars, user_hints, user_message, inference_calls>>

\* Lines 69-83: await self.browser.navigate(url)
Navigate ==
    /\ pc = "navigate"
    /\ calls' = Append(calls, "navigate")
    /\ \E loaded \in BOOLEAN :
         IF ~loaded
         THEN /\ Return(LoadFailure)
              /\ UNCHANGED <<page_url, history>>
         ELSE /\ page_url' = StartUrl
              /\ history' = <<>>
              /\ trajectory' = <<>>
              /\ step' = 1
              /\ pc' = "capture"
              /\ UNCHANGED <<screenshot, current_url, user_hint, response, action,
                             exec_result, result>>
    /\ UNCHANGED <<agent_vars, call_vars, thread_vars, user_hints, user_message, inference_calls>>

\* Lines 92-104: the screenshot and the url of the iteration.
Capture ==
    /\ pc = "capture"
    /\ \E threw \in BOOLEAN :
         IF threw
         THEN /\ Raise
              /\ calls' = <<"get_screenshot">>
         ELSE /\ screenshot' = <<"png", page_url>>
              /\ current_url' = page_url
              /\ user_hint' = NoHint
              /\ calls' = <<"get_screenshot", "get_current_url">>
              /\ pc' = IF interactive THEN "hint" ELSE "predict"
              /\ UNCHANGED <<step, trajectory, response, action, exec_result, result>>
    /\ UNCHANGED <<agent_vars, call_vars, thread_vars, page_url, history, user_hints, user_message,
                   inference_calls>>

\* Lines 105-137 (the select branch): wait up to 3 seconds for a line.
Hint ==
    /\ pc = "hint"
    /\ ~win32
    /\ pc' = "predict"
    /\ calls' = Append(calls, "select")
    /\ \/ \* nothing to read when the timeout ends
          UNCHANGED <<user_hint, user_hints>>
       \/ \E line \in HintLines :
            /\ Strip(line) # <<>> => Len(user_hints) < MaxHints
            /\ user_hint' = HintGiven(Strip(line))
            /\ user_hints' = IF Strip(line) # <<>>
                             THEN Append(user_hints, Strip(line))
                             ELSE user_hints
    /\ UNCHANGED <<agent_vars, call_vars, thread_vars, page_url, history, step, trajectory, screenshot,
                   current_url, response, action, exec_result, result,
                   user_message, inference_calls>>

\* Variant: the failed iteration is counted in "steps".
InferenceFailureCounted(e, n, traj) == ResultFailure(ErrInference(e), n, traj)

\* Lines 151-156: the result of the except branch at iteration n.
InferenceFailure(e, n, traj) == ResultFailure(ErrInference(e), n - 1, traj)

\* Lines 139-159: response = self.model.predict_action(..., user_hint=...)
Predict ==
    /\ pc = "predict"
    /\ inference_calls' = inference_calls + 1
    /\ calls' = Append(calls, "predict_action")
    /\ IF ~predict_takes_hint
       THEN \* the call binds no parameter user_hint: TypeError, caught
            /\ Return(InferenceFailure(TypeErrorHint, step, trajectory))
            /\ UNCHANGED user_message
       ELSE /\ user_message' = _build_user_message(Task, current_url, history)
            /\ \/ \E e \in InferenceErrors :
                    Return(InferenceFailure(e, step, trajectory))
               \/ /\ \E r \in Responses : response' = StrContent(r)
                  /\ pc' = "decide"
                  /\ UNCHANGED <<step, trajectory, screenshot, current_url,
                                 user_hint, action, exec_result, result>>
               \/ /\ response' = NullContent
                  /\ pc' = "decide"
                  /\ UNCHANGED <<step, trajectory, screenshot, current_url,
                                 user_hint, action, exec_result, result>>
    /\ UNCHANGED <<agent_vars, call_vars, thread_vars, page_url, history, user_hints>>

\* ActionParser.parse(response) for the replies of the provider, computed
\* once.
ParseTable == [t \in Responses |-> parse(t)]

\* Variant: the validation verdict is not looked at.
ClassifyUnvalidated(parsed) ==
    IF parsed.type = "none"
    THEN [kind |-> "parse_miss", action |-> parsed, calls |-> <<"parse">>]
    ELSE [kind |-> IF parsed.type = "finish" THEN "finish"
                   ELSE IF parsed.type = "fail" THEN "fail"
                   ELSE "dispatch",
          action |-> parsed,
          calls |-> <<"parse", "validate_action">>]

\* Variant: a reply that does not parse ends the run as finished.
ClassifyMissEnds(parsed) ==
    IF parsed.type = "none"
    THEN [kind |-> "finish", action |-> parsed, calls |-> <<"parse">>]
    ELSE [kind |-> IF ~validate_action(parsed, VIEWPORT_WIDTH, VIEWPORT_HEIGHT)[1]
                   THEN "rejected"
                   ELSE IF parsed.type = "finish" THEN "finish"
                   ELSE IF parsed.type = "fail" THEN "fail"
                   ELSE "dispatch",
          action |-> parsed,
          calls |-> <<"parse", "validate_action">>]

\* Variant: finish() is not recognised as terminal and is dispatched.
ClassifyFinishDispatched(parsed) ==
    IF parsed.type = "none"
    THEN [kind |-> "parse_miss", action |-> parsed, calls |-> <<"parse">>]
    ELSE [kind |-> IF ~validate_action(parsed, VIEWPORT_WIDTH, VIEWPORT_HEIGHT)[1]
                   THEN "rejected"
                   ELSE IF parsed.type = "fail" THEN "fail"
                   ELSE "dispatch",
          action |-> parsed,
          calls |-> <<"parse", "validate_action">>]

\* Lines 164-199: what the iteration does with the parsed reply.
Classify(parsed) ==
    IF parsed.type = "none"
    THEN [kind |-> "parse_miss", action |-> parsed, calls |-> <<"parse">>]
    ELSE [kind |-> IF ~validate_action(parsed, VIEWPORT_WIDTH, VIEWPORT_HEIGHT)[1]
                   THEN "rejected"
                   ELSE IF parsed.type = "finish" THEN "finish"
                   ELSE IF parsed.type = "fail" THEN "fail"
                   ELSE "dispatch",
          action |-> parsed,
          calls |-> <<"parse", "validate_action">>]
Outcome(text) == Classify(ParseTable[text])

\* Lines 190-194 and 208-213: the results of the terminal actions at
\* iteration n, whose entry has been appended to the trajectory.
\* Variant: the finish entry is not appended before the return.
FinishResultBare(n, a, url, traj) == ResultSuccess(n, traj)

FinishResult(n, a, url, traj) ==
    ResultSuccess(n, Append(traj, TerminalEntry(n, a, url)))

\* Variant: the error is the default of params.get, not the reason.
FailResultUnknown(n, a, url, traj) ==
    ResultFailure(<<"U","n","k","n","o","w","n">>, n,
                  Append(traj, TerminalEntry(n, a, url)))

FailResult(n, a, url, traj) ==
    ResultFailure(Param(a, "reason"), n, Append(traj, TerminalEntry(n, a, url)))

\* Lines 163-216: parse, validate, and the terminal actions.
Decide ==
    /\ pc = "decide"
    /\ IF response.content # "str"
       THEN \* re.search on None: TypeError
            /\ Raise
            /\ calls' = Append(calls, "parse")
       ELSE \E o \in {Outcome(response.text)} :
                CASE o.kind \in {"parse_miss", "rejected"} ->
                       NextIteration(trajectory, calls \o o.calls)
                  [] o.kind = "finish" ->
                       /\ calls' = calls \o o.calls
                       /\ Return(FinishResult(step, o.action, current_url, trajectory))
                  [] o.kind = "fail" ->
                       /\ calls' = calls \o o.calls
                       /\ Return(FailResult(step, o.action, current_url, trajectory))
                  [] o.kind = "dispatch" ->
                       /\ calls' = calls \o o.calls
                       /\ action' = o.action
                       /\ pc' = "execute"
                       /\ UNCHANGED <<step, trajectory, screenshot, current_url,
                                      user_hint, response, exec_result, result>>
    /\ UNCHANGED <<agent_vars, call_vars, thread_vars, page_url, history, user_hints, user_message,
                   inference_calls>>

\* Variant: the entry is recorded whatever the dispatch answered.
TrajectoryAfterAlways(done, traj, n, a, url) ==
    Append(traj, ExecutedEntry(n, a, url, done[2]))

\* Lines 223-232: what the history and the trajectory are after the
\* dispatch of action a at iteration n answered done.
HistoryAfter(done, hist, a) ==
    IF done[1] THEN Append(hist, HistoryEntry(a)) ELSE hist
TrajectoryAfter(done, traj, n, a, url) ==
    IF done[1] THEN Append(traj, ExecutedEntry(n, a, url, done[2])) ELSE traj

\* Variant: the loop goes on as soon as the dispatch has answered.
ExecuteNoPause ==
    /\ pc = "execute"
    /\ \E threw \in BOOLEAN :
         /\ history' = HistoryAfter(execute_action(action, threw), history, action)
         /\ UNCHANGED page_url
         /\ NextIteration(TrajectoryAfter(execute_action(action, threw), trajectory,
                                          step, action, current_url),
                          Append(calls, "execute_action"))
    /\ UNCHANGED <<agent_vars, call_vars, thread_vars, user_hints, user_message, inference_calls>>

\* Lines 218-235: await self.browser.execute_action(action), the appends,
\* and the start of the pause.
Execute ==
    /\ pc = "execute"
    /\ calls' = Append(calls, "execute_action")
    /\ \E threw \in BOOLEAN :
         LET done == execute_action(action, threw)
         IN  /\ exec_result' = done
             /\ history' = HistoryAfter(done, history, action)
             /\ trajectory' = TrajectoryAfter(done, trajectory, step, action, current_url)
             /\ \* a click that went through may load another page
                IF done[1] /\ action.type = "click"
                THEN page_url' \in {page_url, NextUrl}
                ELSE UNCHANGED page_url
    /\ pc' = "sleep"
    /\ UNCHANGED <<agent_vars, call_vars, thread_vars, user_hints, step, screenshot, current_url, user_hint,
                   response, action, result, user_message, inference_calls>>

\* Line 235: await asyncio.sleep(1) ends; the loop goes on or is used up.
Sleep ==
    /\ pc = "sleep"
    /\ NextIteration(trajectory, Append(calls, "sleep"))
    /\ UNCHANGED <<agent_vars, call_vars, thread_vars, page_url, history, user_hints, user_message,
                   inference_calls>>

Next ==
    \/ RunTask
    \/ Navigate
    \/ Capture
    \/ Hint
    \/ Predict
    \/ Decide
    \/ Execute
    \/ Sleep

Spec == Init /\ [][Next]_vars

\* One thread of control runs run_task: when the call it awaits returns, the
\* coroutine takes its next step.  Whether run_task is called again is up to
\* the caller.
RunStep ==
    \/ Navigate
    \/ Capture
    \/ Hint
    \/ Predict
    \/ Decide
    \/ Execute
    \/ Sleep
FairSpec == Init /\ [][Next]_vars /\ WF_vars(RunStep)

(***************************************************************************)
(* agent.py: the hint of interactive mode, on both platforms               *)
(***************************************************************************)
\* Lines 117-126: user_input = [], and input_thread is started; it calls
\* input().  Readers that called input() before it are served first.
HintStart ==
    /\ pc = "hint"
    /\ win32
    /\ pc' = "join"
    /\ reader' = "running"
    /\ user_input' = <<>>
    /\ holder' = IF holder = "none" THEN "current" ELSE holder
    /\ calls' = Append(calls, "input_thread.start")
    /\ UNCHANGED <<agent_vars, call_vars, stale, page_url, history, user_hints, step,
                   trajectory, screenshot, current_url, user_hint, response, action,
                   exec_result, result, user_message, inference_calls>>

\* What join leaves of the threads: a thread that has not returned from
\* input() stays blocked in it, and is one more stale reader.
StaleAfterJoin == IF reader = "running" /\ stale < MaxStale THEN stale + 1 ELSE stale
HolderAfterJoin == IF holder = "current" THEN "stale" ELSE holder

\* Variant: join() with no timeout returns only when the thread has ended.
HintJoinBlocking ==
    /\ pc = "join"
    /\ reader = "done"
    /\ pc' = "predict"
    /\ calls' = Append(calls, "input_thread.join")
    /\ user_hint' = HintGiven(Strip(user_input[1]))
    /\ user_hints' = IF Strip(user_input[1]) # <<>>
                     THEN Append(user_hints, Strip(user_input[1]))
                     ELSE user_hints
    /\ reader' = "none"
    /\ user_input' = <<>>
    /\ UNCHANGED <<stale, holder>>
    /\ UNCHANGED <<agent_vars, call_vars, page_url, history, step, trajectory, screenshot,
                   current_url, response, action, exec_result, result, user_message,
                   inference_calls>>

\* Lines 127-137: input_thread.join(timeout=3.0) returns, because the thread
\* has ended or because 3 seconds have passed, and user_input is looked at.
HintJoin ==
    /\ pc = "join"
    /\ pc' = "predict"
    /\ calls' = Append(calls, "input_thread.join")
    /\ IF user_input # <<>>
       THEN /\ user_hint' = HintGiven(Strip(user_input[1]))
            /\ user_hints' = IF Strip(user_input[1]) # <<>>
                             THEN Append(user_hints, Strip(user_input[1]))
                             ELSE user_hints
       ELSE UNCHANGED <<user_hint, user_hints>>
    /\ stale' = StaleAfterJoin
    /\ holder' = HolderAfterJoin
    /\ reader' = "none"
    /\ user_input' = <<>>
    /\ UNCHANGED <<agent_vars, call_vars, page_url, history, step, trajectory, screenshot,
                   current_url, response, action, exec_result, result, user_message,
                   inference_calls>>

\* Who is served next once the reader that was served has returned: one of
\* the threads still blocked in input().
NextHolders(stale_left, current_blocked) ==
    IF stale_left = 0 /\ ~current_blocked THEN {"none"}
    ELSE {h \in {"stale", "current"} :
            \/ h = "stale" /\ stale_left > 0
            \/ h = "current" /\ current_blocked}

\* Line 122: the operator enters a line and input() returns it, in the
\* thread that is served; the thread appends it to the user_input list of
\* its own iteration and ends.  The list of a stale thread is read by
\* nobody.  A line entered while no thread is blocked waits for the next
\* input(), which is the same as entering it then.
ReadLine ==
    /\ holder # "none"
    /\ \E line \in HintLines :
         IF holder = "current"
         THEN /\ Strip(line) # <<>> => Len(user_hints) < MaxHints
              /\ user_input' = Append(user_input, line)
              /\ reader' = "done"
              /\ holder' \in NextHolders(stale, FALSE)
              /\ UNCHANGED stale
         ELSE /\ stale' \in IF stale = MaxStale THEN {stale, stale - 1} ELSE {stale - 1}
              /\ holder' \in NextHolders(stale', reader = "running")
              /\ UNCHANGED <<reader, user_input>>
    /\ UNCHANGED <<agent_vars, call_vars, pc, page_url, history, user_hints, step,
                   trajectory, screenshot, current_url, user_hint, response, action,
                   exec_result, result, user_message, inference_calls, calls>>

\* An interactive agent, on either platform.
HintInit ==
    /\ pc = "idle"
    /\ interactive = TRUE
    /\ win32 \in BOOLEAN
    /\ predict_takes_hint \in BOOLEAN
    /\ page_url = "about:blank"
    /\ history = <<>>
    /\ user_hints = <<>>
    /\ step = 0
    /\ trajectory = <<>>
    /\ screenshot = NoShot
    /\ current_url = ""
    /\ user_hint = NoHint
    /\ response = NoResponse
    /\ action = None
    /\ exec_result = NoExec
    /\ result = NoResult
    /\ user_message = NoMessage
    /\ inference_calls = 0
    /\ calls = <<>>
    /\ call = NoCall
    /\ ret = NoRet
    /\ reader = "none"
    /\ user_input = <<>>
    /\ stale = 0
    /\ holder = "none"

HintNext ==
    \/ RunTask
    \/ Navigate
    \/ Capture
    \/ Hint
    \/ HintStart
    \/ HintJoin
    \/ ReadLine
    \/ Predict
    \/ Decide
    \/ Execute
    \/ Sleep

\* The thread of run_task takes its steps; whether and when the operator
\* enters a line is up to the operator.
HintRunStep ==
    \/ Navigate
    \/ Capture
    \/ Hint
    \/ HintStart
    \/ HintJoin
    \/ Predict
    \/ Decide
    \/ Execute
    \/ Sleep
HintSpec == HintInit /\ [][HintNext]_vars /\ WF_vars(HintRunStep)

(***************************************************************************)
(* actions.py: ActionParser.parse and validate_action called on their own  *)
(***************************************************************************)
\* The texts handed to parse.  Each is kept with the parts it is made of and
\* with what the parts denote (an integer, a word in lower case, a text
\* without the white space around it), written out rather than computed.
\* Writings of integers, with the integer.
IntTexts ==
    {<< <<"5">>, 5 >>,
     << <<"0">>, 0 >>,
     << <<"1","2">>, 12 >>,
     << <<"0","0","7">>, 7 >>,
     << <<"-","3">>, -3 >>}
\* Reasoning texts T, with T.strip().
ThoughtTexts ==
    {<< <<"g","o">>, <<"g","o">> >>,
     << <<" ","g","o"," ">>, <<"g","o">> >>,
     << <<"a","\n","b">>, <<"a","\n","b">> >>,
     << <<>>, <<>> >>,
     << <<"x","\n","A","c","t","i","o","n",":"," ","f","a","i","l","(","'","n","'",")">>, <<"x","\n","A","c","t","i","o","n",":"," ","f","a","i","l","(","'","n","'",")">> >>,
     << <<"s","e","e"," ","a","c","t","i","o","n",":"," ","i","t">>, <<"s","e","e"," ","a","c","t","i","o","n",":"," ","i","t">> >>}
\* Texts T between the quotes of type(...) and fail(...).
QuotedTexts ==
    {<<"a">>,
     <<"n","o"," ","w","a","y">>,
     <<"i","t","'","s">>,
     <<"c","l","i","c","k","(","1",","," ","2",")">>,
     <<"f","i","n","i","s","h","(",")">>,
     <<"t","y","p","e","(","'","x","'",")">>}
\* Words W of scroll(W ...), with W.lower().
ScrollWords ==
    {<< <<"d","o","w","n">>, <<"d","o","w","n">> >>,
     << <<"D","O","W","N">>, <<"d","o","w","n">> >>,
     << <<"U","p">>, <<"u","p">> >>,
     << <<"l","e","f","t">>, <<"l","e","f","t">> >>,
     << <<"x","_","1">>, <<"x","_","1">> >>}
\* Amounts N of scroll(W, N), with int(N).
ScrollAmounts ==
    {<< <<"0">>, 0 >>,
     << <<"5">>, 5 >>,
     << <<"2","5","0">>, 250 >>,
     << <<"0","0","7">>, 7 >>}
\* Other texts: without a marker, with a marker and no command, with the
\* command on the next line, in another letter case, with two markers.
FreeTexts ==
    {<<"n","o"," ","a","c","t","i","o","n"," ","m","a","r","k","e","r"," ","h","e","r","e">>,
     <<"A","c","t","i","o","n",":"," ","f","i","n","i","s","h","(",")">>,
     <<"A","c","t","i","o","n",":">>,
     <<"A","c","t","i","o","n",":"," ","\n">>,
     <<"A","c","t","i","o","n",":","\n","c","l","i","c","k","(","1",","," ","2",")">>,
     <<"a","c","t","i","o","n",":"," ","F","I","N","I","S","H","(",")">>,
     <<"A","c","t","i","o","n",":"," ","g","a","r","b","a","g","e","\n","A","c","t","i","o","n",":"," ","f","i","n","i","s","h","(",")">>,
     <<"T","h","o","u","g","h","t",":"," ","t">>,
     <<"A","c","t","i","o","n",":"," ","w","a","i","t","(","2",".","5",")">>,
     <<"A","c","t","i","o","n",":"," ","p","r","e","s","s","(","'","E","n","t","e","r","'",")">>,
     <<"T","h","o","u","g","h","t",":"," ","t","\n","A","c","t","i","o","n",":"," ","s","c","r","o","l","l","(","u","p",")">>,
     <<"A","C","T","I","O","N",":"," ","C","l","i","c","k","(","3",",","4",")"," ","n","o","w">>,
     <<"A","c","t","i","o","n",":"," ","c","l","i","c","k","(","1",";","2",")">>,
     <<>>,
     <<"A","c","t","i","o","n",":"," ","t","y","p","e","(","'","'",")">>}

\* "Thought: T\nAction: click(X, Y)"
ThoughtClickCalls ==
    {[fn |-> "parse", form |-> "thought_click", T |-> t, X |-> x, Y |-> y,
      text |-> <<"T","h","o","u","g","h","t",":"," ">> \o t[1]
               \o <<"\n","A","c","t","i","o","n",":"," ","c","l","i","c","k","(">>
               \o x[1] \o <<","," ">> \o y[1] \o <<")">>] :
        t \in ThoughtTexts, x \in IntTexts, y \in IntTexts}
\* "Action: type('T')", "Action: fail(\"T\")", ...
QuotedCalls ==
    {[fn |-> "parse", form |-> "quoted", kw |-> kw, T |-> t,
      text |-> <<"A","c","t","i","o","n",":"," ">>
               \o (IF kw = "type" THEN <<"t","y","p","e","(">> ELSE <<"f","a","i","l","(">>)
               \o <<q>> \o t \o <<q, ")">>] :
        kw \in {"type", "fail"}, q \in {"'", "\""}, t \in QuotedTexts}
\* "Action: scroll(W)" and "Action: scroll(W, N)"
ScrollCalls ==
    {[fn |-> "parse", form |-> "scroll", W |-> w, N |-> <<>>,
      text |-> <<"A","c","t","i","o","n",":"," ","s","c","r","o","l","l","(">> \o w[1] \o <<")">>] :
        w \in ScrollWords}
    \cup
    {[fn |-> "parse", form |-> "scroll", W |-> w, N |-> <<n>>,
      text |-> <<"A","c","t","i","o","n",":"," ","s","c","r","o","l","l","(">> \o w[1]
               \o <<","," ">> \o n[1] \o <<")">>] :
        w \in ScrollWords, n \in ScrollAmounts}
FreeCalls == {[fn |-> "parse", form |-> "free", text |-> t] : t \in FreeTexts}
ParseCalls == ThoughtClickCalls \cup QuotedCalls \cup ScrollCalls \cup FreeCalls

\* The actions handed to validate_action, and the viewports.
Viewports == {<<VIEWPORT_WIDTH, VIEWPORT_HEIGHT>>, <<3, 2>>, <<0, 0>>, <<720, 1280>>}
\* Coordinates at, next to and far from the edges 0 and side.
Coords(side) == {-1, 0, 1, side - 1, side, side + 1, 2000, 300}
ClickActions(vp) ==
    {Action("click", << <<"x", x>>, <<"y", y>> >>, <<>>) :
        x \in Coords(vp[1]), y \in Coords(vp[2])}
\* float values: 0.0, 0.5, 9.9, 10.0 (written 10 and 10.0), 10.000001, 10.1,
\* 11.0, 720.0
WaitSeconds ==
    {[num |-> 0, den |-> 1], [num |-> 5, den |-> 10], [num |-> 99, den |-> 10],
     [num |-> 10, den |-> 1], [num |-> 100, den |-> 10],
     [num |-> 10000001, den |-> 1000000], [num |-> 101, den |-> 10],
     [num |-> 11, den |-> 1], [num |-> 720, den |-> 1]}
WaitActions == {Action("wait", << <<"seconds", s>> >>, <<>>) : s \in WaitSeconds}
\* Scroll actions, in and out of what the parser makes (it gives lower case).
ScrollDirections ==
    {<<"u","p">>,
     <<"d","o","w","n">>,
     <<"l","e","f","t">>,
     <<"s","i","d","e","w","a","y","s">>,
     <<"U","P">>,
     <<"D","o","w","n">>,
     <<>>}
ScrollActions ==
    {Action("scroll", << <<"direction", d>>, <<"amount", n>> >>, r) :
        d \in ScrollDirections, n \in {0, 500}, r \in {<<>>, <<"g", "o">>}}
\* Type, Press, Finish and Fail actions, with fields of every sort.
OtherActions ==
    {Action("type", << <<"text", t>> >>, <<>>) :
        t \in {<<"a">>, <<"c","l","i","c","k","(","2","0","0","0",","," ","3","0","0",")">>, <<" ">>}}
    \cup {Action("press", << <<"key", k>> >>, <<"g", "o">>) :
        k \in {<<"E","n","t","e","r">>, <<"n","o","k","e","y">>}}
    \cup {Action("finish", <<>>, r) : r \in {<<>>, <<"g", "o">>}}
    \cup {Action("fail", << <<"reason", t>> >>, <<>>) :
        t \in {<<"n","o">>, <<"w","a","i","t","(","1","1",")">>}}
ValidateCalls ==
    {[fn |-> "validate_action", action |-> a, viewport_width |-> vp[1],
      viewport_height |-> vp[2]] :
        vp \in Viewports,
        a \in UNION {ClickActions(v) : v \in Viewports} \cup WaitActions
               \cup ScrollActions \cup OtherActions}

\* The call has not been made; nothing of the agent moves.
CallInit ==
    /\ call \in ParseCalls \cup ValidateCalls
    /\ ret = NoRet
    /\ pc = "idle"
    /\ interactive = FALSE
    /\ predict_takes_hint = FALSE
    /\ page_url = "about:blank"
    /\ history = <<>>
    /\ user_hints = <<>>
    /\ step = 0
    /\ trajectory = <<>>
    /\ screenshot = NoShot
    /\ current_url = ""
    /\ user_hint = NoHint
    /\ response = NoResponse
    /\ action = None
    /\ exec_result = NoExec
    /\ result = NoResult
    /\ user_message = NoMessage
    /\ inference_calls = 0
    /\ calls = <<>>
    /\ win32 = FALSE
    /\ reader = "none"
    /\ user_input = <<>>
    /\ stale = 0
    /\ holder = "none"

run_vars == <<pc, interactive, predict_takes_hint, page_url, history, user_hints,
              step, trajectory, screenshot, current_url, user_hint, response,
              action, exec_result, result, user_message, inference_calls, calls,
              win32, reader, user_input, stale, holder>>

\* ActionParser.parse(text)
CallParse ==
    /\ call.fn = "parse"
    /\ ~ret.returned
    /\ ret' = Returned(parse(call.text))
    /\ UNCHANGED <<call, run_vars>>

\* ActionParser.validate_action(action, viewport_width, viewport_height)
CallValidate ==
    /\ call.fn = "validate_action"
    /\ ~ret.returned
    /\ ret' = Returned(validate_action(call.action, call.viewport_width,
                                       call.viewport_height))
    /\ UNCHANGED <<call, run_vars>>

CallNext ==
    \/ CallParse
    \/ CallValidate

CallSpec == CallInit /\ [][CallNext]_vars

(***************************************************************************)
(* Properties of run_task                                                  *)
(***************************************************************************)
InLoop == pc \in {"capture", "hint", "join", "predict", "decide", "execute", "sleep"}

\* The reply of the iteration, parsed and validated as lines 164-172 do.
ReplyIsStr == response.content = "str"
ReplyAction == ParseTable[response.text]
ReplyAccepted ==
    /\ ReplyAction.type # "none"
    /\ validate_action(ReplyAction, VIEWPORT_WIDTH, VIEWPORT_HEIGHT)[1]

\* C1: the steps of every returned result are at most the step budget, and
\* a run makes at most that many calls of predict_action.
C1_StepBudget ==
    /\ inference_calls <= MAX_STEPS
    /\ pc = "returned" => result.steps <= MAX_STEPS

\* A run that finishes in its last iteration.
C1_Witness ==
    /\ pc = "returned"
    /\ result.success
    /\ result.steps = MAX_STEPS
    /\ inference_calls = MAX_STEPS

\* C2: when the reply of iteration n parses to an accepted Finish or Fail,
\* the run returns in that step with steps = n; Finish gives success and no
\* error, Fail gives no success and the reason as the error.
C2_TerminalAction ==
    [][(pc = "decide" /\ ReplyIsStr /\ ReplyAccepted
            /\ ReplyAction.type \in {"finish", "fail"})
        => /\ pc' = "returned"
           /\ result'.steps = step
           /\ ReplyAction.type = "finish" =>
                 result'.success /\ "error" \notin result'.keys
           /\ ReplyAction.type = "fail" =>
                 /\ ~result'.success
                 /\ "error" \in result'.keys
                 /\ result'.error = Param(ReplyAction, "reason")]_vars

\* A run ended by fail('no') in its third iteration.
C2_Witness ==
    /\ pc = "returned"
    /\ ~result.success
    /\ result.error = <<"n", "o">>
    /\ result.steps = 3

\* C3: when the last iteration ends without a terminal action (a parse
\* miss, a rejection, or the pause after a dispatch), the run returns
\* success = false, the error "Max steps (<budget>) exceeded", steps = budget
\* and the trajectory recorded so far.
C3_Exhausted ==
    [][(/\ step = MAX_STEPS
        /\ \/ pc = "sleep"
           \/ pc = "decide" /\ ReplyIsStr /\ ~ReplyAccepted)
        => /\ pc' = "returned"
           /\ ~result'.success
           /\ "error" \in result'.keys
           /\ result'.error = <<"Max steps (", ToString(MAX_STEPS), ") exceeded">>
           /\ result'.steps = MAX_STEPS
           /\ result'.trajectory = trajectory]_vars

\* An exhausted run that recorded two entries.
C3_Witness ==
    /\ pc = "returned"
    /\ result.error = <<"Max steps (", ToString(MAX_STEPS), ") exceeded">>
    /\ Len(result.trajectory) = 2

\* A finish or fail entry of tr is its last entry.
TerminalIsLast(tr) ==
    \A k \in DOMAIN tr : tr[k].action.name \in {"finish", "fail"} => k = Len(tr)

\* C4: in the trajectory of the loop and in every returned trajectory a
\* finish or fail entry is the last entry (so there is at most one, and
\* nothing is appended after it).
C4_TerminalLast == TerminalIsLast(trajectory) /\ TerminalIsLast(result.trajectory)

\* A returned trajectory of three entries that ends with fail.
C4_Witness ==
    /\ pc = "returned"
    /\ Len(result.trajectory) = 3
    /\ result.trajectory[3].action.name = "fail"

\* The entries the step appends: those of the trajectory after the step (the
\* returned one when the step returns) beyond the trajectory before it.
TrajectoryAfterStep ==
    IF pc' = "returned" THEN result'.trajectory
    ELSE IF pc' = "raised" THEN trajectory
    ELSE trajectory'

\* The action about to be dispatched is the one parsed from the reply of the
\* iteration, accepted, and not terminal.
C5_Dispatched ==
    pc = "execute" =>
        /\ ReplyIsStr
        /\ ReplyAccepted
        /\ action = ReplyAction
        /\ action.type \notin {"finish", "fail"}
\* Every entry the step appends is of the accepted action of the iteration.
C5_Recorded ==
    InLoop =>
        \A k \in (Len(trajectory) + 1)..Len(TrajectoryAfterStep) :
            /\ ReplyIsStr
            /\ ReplyAccepted
            /\ TrajectoryAfterStep[k].step = step
            /\ TrajectoryAfterStep[k].action = ActionStr(ReplyAction)
            /\ TrajectoryAfterStep[k].reasoning = ReplyAction.reasoning

\* C5: execute_action is only called with the action parsed from the reply
\* of the iteration, accepted by validate_action and neither finish nor
\* fail; and every entry a step of the loop appends to the trajectory is of
\* the action parsed from the reply of that iteration and accepted.
C5_ValidatedOnly == []C5_Dispatched /\ [][C5_Recorded]_vars

\* The third iteration pauses after a dispatch that was recorded, as the
\* second entry.
C5_Witness ==
    /\ pc = "sleep"
    /\ step = 3
    /\ exec_result[1]
    /\ Len(trajectory) = 2
    /\ trajectory[2].step = 3

\* C6: a reply of iteration n < budget that does not parse, or whose action
\* is rejected, leaves trajectory and history as they are, and the loop goes
\* on with iteration n + 1.
C6_SkipRecovered ==
    [][(pc = "decide" /\ ReplyIsStr /\ ~ReplyAccepted /\ step < MAX_STEPS)
        => /\ pc' = "capture"
           /\ step' = step + 1
           /\ trajectory' = trajectory
           /\ history' = history]_vars

\* Iteration 3 starts after iteration 2 ended at the parser or the
\* validator, with the entry of iteration 1 kept.
C6_Witness ==
    /\ pc = "capture"
    /\ step = 3
    /\ Len(calls) > 0
    /\ calls[Len(calls)] \in {"parse", "validate_action"}
    /\ Len(trajectory) = 1
    /\ Len(history) = 1

\* C7: when execute_action answers success = false at iteration n, nothing
\* is appended to history or trajectory, and after the pause the loop goes
\* on with iteration n + 1; when n is the budget, what follows is the
\* return for the used-up budget, not a failure of the run by the dispatch.
C7_ExecFailure ==
    [][/\ (pc = "execute" /\ pc' = "sleep" /\ ~exec_result'[1])
            => /\ history' = history
               /\ trajectory' = trajectory
               /\ step' = step
       /\ (pc = "sleep" /\ ~exec_result[1] /\ step < MAX_STEPS)
            => /\ pc' = "capture"
               /\ step' = step + 1
               /\ history' = history
               /\ trajectory' = trajectory
       /\ (pc = "sleep" /\ ~exec_result[1] /\ step = MAX_STEPS)
            => /\ pc' = "returned"
               /\ result'.error = <<"Max steps (", ToString(MAX_STEPS), ") exceeded">>
               /\ result'.trajectory = trajectory
               /\ history' = history]_vars

\* Iteration 2 starts after a dispatch in iteration 1 that recorded nothing.
C7_Witness ==
    /\ pc = "capture"
    /\ step = 2
    /\ Len(calls) > 0
    /\ calls[Len(calls)] = "sleep"
    /\ trajectory = <<>>
    /\ history = <<>>

\* r is a result of the except branch of the inference call.
IsInferenceFailure(r) ==
    /\ "error" \in r.keys
    /\ Len(r.error) = 2
    /\ r.error[1] = "Model inference failed: "
\* The returned result of a failed inference call, and the calls of its
\* iteration.
C8_Returned ==
    (pc = "returned" /\ IsInferenceFailure(result)) =>
        /\ ~result.success
        /\ result.steps = inference_calls - 1
        /\ \A k \in DOMAIN result.trajectory : result.trajectory[k].step <= result.steps
        /\ Len(calls) > 0
        /\ calls[Len(calls)] = "predict_action"
        /\ \A k \in DOMAIN calls :
              calls[k] \notin {"parse", "validate_action", "execute_action", "sleep"}
\* The step of a call that delivers no reply, and the step after a return.
C8_Step ==
    /\ (pc = "predict" /\ pc' # "decide")
          => /\ pc' = "returned"
             /\ IsInferenceFailure(result')
             /\ result'.error[2] \in InferenceErrors \cup {TypeErrorHint}
             /\ result'.steps = step - 1
             /\ result'.trajectory = trajectory
    /\ pc = "returned" => pc' = "navigate"

\* C8: a call of predict_action that delivers no reply at iteration n ends
\* the run in that step: success = false, error "Model inference failed:
\* <detail>", steps = n - 1, the trajectory as it was; the calls of that
\* iteration end with predict_action (no parse, validation or dispatch), and
\* nothing but a new run follows a return.
C8_InferenceFailure == []C8_Returned /\ [][C8_Step]_vars

\* The inference call of iteration 3 failed after two recorded entries.
C8_Witness ==
    /\ pc = "returned"
    /\ IsInferenceFailure(result)
    /\ result.steps = 2
    /\ Len(result.trajectory) = 2

\* {success: false, error: "Failed to load page", steps: 0, trajectory: []}
C9_Result ==
    [keys |-> {"success", "error", "steps", "trajectory"},
     success |-> FALSE, error |-> <<"Failed to load page">>, steps |-> 0,
     trajectory |-> <<>>]
\* A run that returned right after navigate.
C9_Returned ==
    (pc = "returned" /\ Len(calls) > 0 /\ calls[Len(calls)] = "navigate") =>
        /\ result = C9_Result
        /\ calls = <<"navigate">>
        /\ inference_calls = 0
\* navigate leads into iteration 1 or to that return.
C9_Step ==
    pc = "navigate" =>
        \/ pc' = "capture" /\ step' = 1
        \/ pc' = "returned" /\ result' = C9_Result /\ calls' = <<"navigate">>

\* C9: a navigation that does not enter the loop returns {success: false,
\* error: "Failed to load page", steps: 0, trajectory: []}, and the run has
\* called nothing but navigate: no screenshot, no inference, no dispatch.
C9_LoadFailure == []C9_Returned /\ [][C9_Step]_vars

\* A second run on an agent whose first run recorded history fails to load.
C9_Witness ==
    /\ pc = "returned"
    /\ result = C9_Result
    /\ Len(history) > 0

MinOf(a, b) == IF a <= b THEN a ELSE b
\* The history mirrors the executed entries of the trajectory of the run.
C10_FromExecuted ==
    InLoop =>
        /\ Len(history) = Len(trajectory)
        /\ \A k \in DOMAIN trajectory :
              /\ history[k] = <<trajectory[k].action, " - ", trajectory[k].reasoning>>
              /\ "result" \in DOMAIN trajectory[k]
              /\ trajectory[k].result[1] \notin {"Execution error", "Unknown action type"}
              /\ trajectory[k].action.name \notin {"finish", "fail"}
              /\ trajectory[k].step < step + (IF pc = "sleep" THEN 1 ELSE 0)
              /\ k > 1 => trajectory[k - 1].step < trajectory[k].step
\* The message built for the call numbers the last five entries.
C10_LastFive ==
    pc = "decide" =>
        user_message.previous_actions =
            IF Len(history) = 0 THEN <<"None">>
            ELSE [k \in 1..MinOf(5, Len(history)) |->
                     <<k, history[Len(history) - MinOf(5, Len(history)) + k]>>]
\* The call reads the history; elsewhere it grows by one append.
C10_AppendOnly ==
    /\ pc = "predict" => history' = history
    /\ pc # "navigate" =>
          \/ history' = history
          \/ /\ Len(history') = Len(history) + 1
             /\ SubSeq(history', 1, Len(history)) = history

\* C10: inside the loop the history is, entry for entry and in order, made
\* of the executed entries of the trajectory of this run (dispatched in an
\* earlier iteration, answered success, not finish or fail); the user message
\* built for the call holds the last five of them, numbered from 1; the call
\* leaves the history as it is, and outside the reset of a new run the
\* history changes only by one append.
C10_History == [](C10_FromExecuted /\ C10_LastFive) /\ [][C10_AppendOnly]_vars

\* The call of iteration 7 was built from a history of six entries, two of
\* them different, and its message starts with the second.
C10_Witness ==
    /\ pc = "decide"
    /\ Len(history) = 6
    /\ history[1] # history[2]
    /\ Len(user_message.previous_actions) = 5
    /\ user_message.previous_actions[1] = <<1, history[2]>>

\* The dispatch of an iteration adds one entry to the history when it
\* answered success and none otherwise; no other step of the loop adds any.
C11_Counted ==
    /\ pc = "execute" =>
         Len(history') = Len(history) + (IF exec_result'[1] THEN 1 ELSE 0)
    /\ (pc \in {"capture", "hint", "join", "predict", "decide", "sleep"}) => history' = history

\* A result of success: its steps is the step of its last entry, which is
\* the finish; the entries before it are, one for one and in order, those
\* of the dispatches that answered success.
C11_Result ==
    (pc = "returned" /\ result.success) =>
        LET tr == result.trajectory
            k  == Len(history)
        IN  /\ result.keys = {"success", "steps", "trajectory"}
            /\ Len(tr) = k + 1
            /\ tr[k + 1].action.name = "finish"
            /\ tr[k + 1].step = result.steps
            /\ \A j \in 1..k :
                 /\ history[j] = <<tr[j].action, " - ", tr[j].reasoning>>
                 /\ tr[j].action.name \notin {"finish", "fail"}
                 /\ tr[j].step < tr[j + 1].step

\* C11: a run that ends with finish at iteration n, k of whose earlier
\* iterations dispatched an action that answered success, returns success =
\* true, steps = n and a trajectory of k + 1 entries: the k executed actions
\* in order, then the finish.
C11_FinishCount == []C11_Result /\ [][C11_Counted]_vars

\* click executed at 1, nothing recorded at 2, finish at 3: steps = 3 and
\* the 2 entries click, finish.
C11_Witness ==
    /\ pc = "returned"
    /\ result.success
    /\ result.steps = 3
    /\ Len(result.trajectory) = 2
    /\ result.trajectory[1].action.name = "click"
    /\ result.trajectory[1].step = 1
    /\ result.trajectory[2].action.name = "finish"
    /\ result.trajectory[2].step = 3

\* The five ways the claim lets a run end.
C12_Endings ==
    pc = "returned" =>
        \/ result = LoadFailure
        \/ IsInferenceFailure(result)
        \/ /\ result.success
           /\ result.trajectory[Len(result.trajectory)].action.name = "finish"
        \/ /\ ~result.success
           /\ Len(result.trajectory) > 0
           /\ result.trajectory[Len(result.trajectory)].action.name = "fail"
        \/ /\ result.error = ErrMaxSteps
           /\ result.steps = MAX_STEPS

\* C12: a run ends in one of navigation failure, inference failure, finish,
\* fail or the used-up budget, and always by returning a result: no failure
\* of an iteration (the capture of the screenshot or the url among them)
\* leaves run_task as an exception.
C12_AlwaysReturns == pc # "raised" /\ C12_Endings

\* C14: a run is ended with "Model inference failed" only when the call of
\* the model failed by a transport error or a malformed reply of the
\* provider; otherwise the reply reaches the parser.
C14_HintDelivered ==
    (pc = "returned" /\ IsInferenceFailure(result)) =>
        result.error[2] \in InferenceErrors

\* Nothing but a new run follows a return: the run that returned makes no
\* further call.
C13_Quiet ==
    pc = "returned" =>
        /\ pc' = "navigate"
        /\ calls' = <<>>
        /\ inference_calls' = 0

\* Every collaborator call returns a value of its declared type: no
\* exception leaves run_task (one does when get_screenshot raises, or when
\* predict_action hands on a null content instead of a str).
C13_CallsReturn == pc # "raised"

ParseReturned(form) == call.fn = "parse" /\ call.form = form /\ ret.returned
ValidateReturned(type) ==
    call.fn = "validate_action" /\ call.action.type = type /\ ret.returned

\* X is written in decimal digits only.
InDigits(x) == \A k \in DOMAIN x[1] : IsDigit(x[1][k])
\* T holds no text that the marker "Action:" matches in any letter case.
HasNoMarker(t) == \A i \in 1..Len(t) : ~LitAt(t, i, <<"a","c","t","i","o","n",":">>)

\* "Thought: T\nAction: click(X, Y)" parses to Click(X, Y) with reasoning T,
\* for every T and all integers X and Y of the texts tried.
C15_ClickAnyThought ==
    ParseReturned("thought_click") =>
        ret.value = Action("click", << <<"x", call.X[2]>>, <<"y", call.Y[2]>> >>,
                           call.T[1])

\* C15: for every text "Thought: T\nAction: click(X, Y)" where X and Y are
\* written in decimal digits, T has a character that is not white space and
\* no part of T is matched by the marker "Action:" in any letter case, parse
\* returns a Click with x = X, y = Y and as reasoning T without the white
\* space around it.
C15_ClickThought ==
    ( /\ ParseReturned("thought_click")
      /\ InDigits(call.X) /\ InDigits(call.Y)
      /\ call.T[2] # <<>>
      /\ HasNoMarker(call.T[1]) ) =>
        ret.value = Action("click", << <<"x", call.X[2]>>, <<"y", call.Y[2]>> >>,
                           call.T[2])

\* "Thought:  go \nAction: click(007, 12)" gave Click(7, 12), reasoning "go".
C15_Witness ==
    /\ ParseReturned("thought_click")
    /\ call.T[1] = <<" ", "g", "o", " ">>
    /\ call.X[1] = <<"0", "0", "7">>
    /\ call.Y[2] = 12
    /\ ret.value = Action("click", << <<"x", 7>>, <<"y", 12>> >>, <<"g", "o">>)

\* C16: type("T") / type('T') parses to Type with text = T and fail("T") /
\* fail('T') to Fail with reason = T, for every T taken as it is written, T
\* that looks like a call included; a fail(...) never gives a Finish.
C16_QuotedLiteral ==
    ParseReturned("quoted") =>
        /\ ret.value =
             Action(call.kw,
                    << <<IF call.kw = "type" THEN "text" ELSE "reason", call.T>> >>,
                    <<>>)
        /\ call.kw = "fail" => ret.value.type # "finish"

\* C17: scroll(W) and scroll(W, N) parse to Scroll with direction W in lower
\* case and amount N when it is given, 500 when it is not.
C17_Scroll ==
    ParseReturned("scroll") =>
        ret.value =
            Action("scroll",
                   << <<"direction", call.W[2]>>,
                      <<"amount", IF call.N = <<>> THEN 500 ELSE call.N[1][2]>> >>,
                   <<>>)

\* scroll(DOWN, 0) gave direction "down" and amount 0.
C17_Witness ==
    /\ ParseReturned("scroll")
    /\ call.W[1] = <<"D", "O", "W", "N">>
    /\ call.N = << << <<"0">>, 0 >> >>
    /\ Param(ret.value, "direction") = <<"d", "o", "w", "n">>
    /\ Param(ret.value, "amount") = 0

\* The command segment of a text: after the first marker "Action:" (in any
\* letter case) and the white space that follows it, the rest of the line.
\* found is FALSE when the text has no marker or nothing but white space
\* after it.
C18_Segment(text) ==
    LET Markers == {i \in 1..Len(text) : LitAt(text, i, <<"a","c","t","i","o","n",":">>)}
        m == CHOOSE i \in Markers : \A j \in Markers : i <= j
        Starts == {j \in (m + 7)..Len(text) : ~IsSpace(text[j])}
        p == CHOOSE j \in Starts : \A k \in Starts : j <= k
        Ends == {j \in p..Len(text) : j = Len(text) \/ text[j + 1] = "\n"}
        e == CHOOSE j \in Ends : \A k \in Ends : j <= k
    IN  IF Markers = {} THEN [found |-> FALSE, text |-> <<>>]
        ELSE IF Starts = {} THEN [found |-> FALSE, text |-> <<>>]
        ELSE [found |-> TRUE, text |-> Slice(text, p, e)]
C18_NoCommand(text) ==
    \/ ~C18_Segment(text).found
    \/ \A kind \in {"click", "type", "scroll", "wait", "press", "finish", "fail"} :
         ~Search(kind, C18_Segment(text).text).ok

\* C18: parse returns None exactly when the text has no "Action:" marker or
\* the command segment of the first line after the marker matches none of
\* the seven patterns; an action parsed from a text without a "Thought:"
\* marker has empty reasoning ("Action: finish()" gives Finish with empty
\* reasoning, "no action marker here" gives None).
C18_NoneExactly ==
    (call.fn = "parse" /\ ret.returned) =>
        /\ (ret.value = None) <=> C18_NoCommand(call.text)
        /\ ( /\ ret.value # None
             /\ \A i \in 1..Len(call.text) : ~LitAt(call.text, i, <<"t","h","o","u","g","h","t",":">>) )
             => ret.value.reasoning = <<>>
        /\ call.text = <<"A","c","t","i","o","n",":"," ","f","i","n","i","s","h","(",")">>
             => ret.value = Action("finish", <<>>, <<>>)
        /\ call.text = <<"n","o"," ","a","c","t","i","o","n"," ","m","a","r","k","e","r"," ","h","e","r","e">>
             => ret.value = None

\* "Action: finish()" gave Finish with empty reasoning.
C18_Witness ==
    /\ ParseReturned("free")
    /\ call.text = <<"A","c","t","i","o","n",":"," ","f","i","n","i","s","h","(",")">>
    /\ ret.value.type = "finish"
    /\ ret.value.reasoning = <<>>

\* C19: validate_action accepts a click exactly when 0 <= x <= width and
\* 0 <= y <= height, and the message of a rejection holds the coordinates
\* and the width and height of the viewport.
C19_ClickBounds ==
    ValidateReturned("click") =>
        LET x == Param(call.action, "x")
            y == Param(call.action, "y")
            inside == /\ 0 <= x /\ x <= call.viewport_width
                      /\ 0 <= y /\ y <= call.viewport_height
        IN  /\ ret.value[1] = inside
            /\ ~inside =>
                 /\ ret.value[2][2] = x
                 /\ ret.value[2][3] = y
                 /\ ret.value[2][5] = call.viewport_width
                 /\ ret.value[2][6] = call.viewport_height
            /\ ( /\ x = 2000 /\ y = 300
                 /\ call.viewport_width = 1280 /\ call.viewport_height = 720 )
                 => ret.value = <<FALSE, <<"Click coordinates", 2000, 300,
                                           "outside viewport", 1280, 720>> >>

\* The click on the far corner (1280, 720) of the 1280x720 viewport was
\* accepted.
C19_Witness ==
    /\ ValidateReturned("click")
    /\ call.viewport_width = 1280 /\ call.viewport_height = 720
    /\ Param(call.action, "x") = 1280 /\ Param(call.action, "y") = 720
    /\ ret.value[1]

\* The waits of at most 10 seconds among WaitSeconds.
C20_AtMostTen ==
    {[num |-> 0, den |-> 1], [num |-> 5, den |-> 10], [num |-> 99, den |-> 10],
     [num |-> 10, den |-> 1], [num |-> 100, den |-> 10]}

\* C20: validate_action rejects a wait exactly when seconds > 10 (10 is
\* accepted, 11 rejected), whatever the viewport arguments are.
C20_WaitLimit ==
    ValidateReturned("wait") =>
        /\ ret.value[1] = (Param(call.action, "seconds") \in C20_AtMostTen)
        /\ Param(call.action, "seconds") = [num |-> 10, den |-> 1] => ret.value[1]
        /\ Param(call.action, "seconds") = [num |-> 11, den |-> 1] => ~ret.value[1]
        /\ \A vp \in Viewports :
             validate_action(call.action, vp[1], vp[2]) = ret.value

\* A wait of 10 seconds was accepted against the viewport 0x0.
C20_Witness ==
    /\ ValidateReturned("wait")
    /\ Param(call.action, "seconds") = [num |-> 10, den |-> 1]
    /\ call.viewport_width = 0
    /\ ret.value[1]

\* The answer of validate_action for the scroll, type, press, finish and
\* fail actions.
C21_Verdict ==
    /\ ValidateReturned("scroll") =>
         /\ ret.value[1] =
              (Param(call.action, "direction") \in {<<"u","p">>, <<"d","o","w","n">>})
         /\ ret.value[1] => ret.value[2] = <<>>
    /\ ( /\ call.fn = "validate_action" /\ ret.returned
         /\ call.action.type \in {"type", "press", "finish", "fail"} )
         => ret.value = <<TRUE, <<>> >>
\* The call leaves its arguments as they were.
C21_Unchanged == (call.fn = "validate_action" /\ ret' # ret) => call' = call

\* C21: validate_action rejects a scroll exactly when its direction is not
\* "up" or "down", accepts every type, press, finish and fail action whatever
\* its fields and the viewport, and leaves the action it is given as it was.
C21_ScrollAndOthers == []C21_Verdict /\ [][C21_Unchanged]_vars

\* A scroll with direction "left" was rejected, under the empty viewport.
C21_Witness ==
    /\ ValidateReturned("scroll")
    /\ Param(call.action, "direction") = <<"l","e","f","t">>
    /\ call.viewport_width = 0
    /\ ~ret.value[1]

(***************************************************************************)
(* Properties of the trajectory, of the pause and of runs after runs       *)
(***************************************************************************)
\* The step indices of a trajectory are strictly increasing values of the
\* range of the loop, none beyond iteration n.
StepsInOrder(traj, n) ==
    /\ \A i \in 1..Len(traj) : traj[i].step \in 1..MAX_STEPS /\ traj[i].step <= n
    /\ \A i \in 1..Len(traj) : \A j \in 1..Len(traj) :
         i < j => traj[i].step < traj[j].step
    /\ Len(traj) <= n
    /\ Len(traj) <= MAX_STEPS

\* later is traj, or traj with one entry of iteration n appended.
GrownBy(traj, later, n) ==
    \/ later = traj
    \/ /\ Len(later) = Len(traj) + 1
       /\ SubSeq(later, 1, Len(traj)) = traj
       /\ later[Len(later)].step = n

C25_Indices ==
    /\ InLoop => StepsInOrder(trajectory, step)
    /\ pc = "returned" => StepsInOrder(result.trajectory, MAX_STEPS)
C25_Appends ==
    InLoop =>
      /\ pc' \in {"returned", "raised"} \/ GrownBy(trajectory, trajectory', step)
      /\ pc' = "returned" => GrownBy(trajectory, result'.trajectory, step)
      /\ (step' # step /\ pc' \notin {"returned", "raised"}) =>
           (step' = step + 1 /\ trajectory' = trajectory)

\* C25: during a run the trajectory changes only by one entry appended at its
\* end, the entry carries the number of the iteration that appends it, the
\* step numbers are strictly increasing values of 1..MAX_STEPS, and the
\* length exceeds neither the iterations started nor MAX_STEPS; the
\* trajectory returned is the last one, or the last one with the terminal
\* entry of the iteration appended.
C25_AppendOnly == []C25_Indices /\ [][C25_Appends]_vars

\* Two entries recorded, by iterations that were not next to each other.
C25_Witness ==
    /\ InLoop
    /\ Len(trajectory) = 2
    /\ trajectory[2].step > trajectory[1].step + 1
    /\ step > trajectory[2].step

\* Until the first inference call of a run has been made, the history and
\* the trajectory are empty; the trajectory never holds more entries than
\* the run has made inference calls.
C24_FreshState ==
    /\ (InLoop /\ inference_calls = 0) => (history = <<>> /\ trajectory = <<>>)
    /\ (InLoop /\ step = 1 /\ pc # "sleep") => trajectory = <<>>
    /\ InLoop => Len(trajectory) <= inference_calls
    /\ pc = "returned" => Len(result.trajectory) <= inference_calls
\* The first call of predict_action of a run is handed the empty history,
\* and the message it builds lists no previous action.
C24_FirstCall ==
    (pc = "predict" /\ inference_calls = 0 /\ inference_calls' = 1) =>
      /\ history = <<>>
      /\ predict_takes_hint =>
           user_message' = _build_user_message(Task, current_url, <<>>)

\* C24: whatever the earlier runs of the agent did and however they ended,
\* the first inference call of a run is handed an empty history, and the
\* trajectory of the run starts empty and holds only entries of this run.
C24_NoLeak == []C24_FreshState /\ [][C24_FirstCall]_vars

\* A run is about to make its first inference call, on an agent whose last
\* inference call, in an earlier run, was handed a history that was not
\* empty.
C24_Witness ==
    /\ pc = "predict"
    /\ inference_calls = 0
    /\ history = <<>>
    /\ user_message # NoMessage
    /\ user_message.previous_actions # <<"None">>

\* The step to the next iteration.
Advance == InLoop /\ step' = step + 1 /\ pc' = "capture"
Dispatched(cs) == \E i \in 1..Len(cs) : cs[i] = "execute_action"
Paused(cs) == \E i \in 1..Len(cs) : cs[i] = "sleep"

\* Every step to the next iteration is taken by the end of the pause.
C23_PauseAlways == [][Advance => (pc = "sleep" /\ Paused(calls'))]_vars

C23_Pause ==
    /\ (pc = "execute" /\ pc' # pc) => (pc' = "sleep" /\ step' = step)
    /\ Advance =>
         /\ Dispatched(calls') <=> Paused(calls')
         /\ Paused(calls') =>
              /\ pc = "sleep"
              /\ Len(calls') >= 2
              /\ calls'[Len(calls')] = "sleep"
              /\ calls'[Len(calls') - 1] = "execute_action"
         /\ ~Paused(calls') =>
              /\ pc = "decide"
              /\ Outcome(response.text).kind \in {"parse_miss", "rejected"}
              /\ calls'[Len(calls')] \in {"parse", "validate_action"}

\* C23: the step from iteration n to iteration n+1 comes after the pause
\* exactly when iteration n dispatched its action to the browser, whether
\* the dispatch succeeded or failed; after a reply that did not parse or an
\* action that was rejected the next iteration starts with no pause.
C23_PauseAfterDispatch == [][C23_Pause]_vars

\* Iteration 2 starts after the pause that followed a failed dispatch in
\* iteration 1.
C23_Witness ==
    /\ pc = "capture"
    /\ step = 2
    /\ Paused(calls)
    /\ trajectory = <<>>

(***************************************************************************)
(* Properties of the hint of interactive mode                              *)
(***************************************************************************)
\* The wait for a hint ends, and the iteration is at its inference call.
C22_Proceeds == (pc \in {"hint", "join"}) ~> (pc = "predict")
\* A wait that ends with no line read leaves no hint; the step that ends
\* the wait changes nothing of the run but the hint.
C22_Timeout ==
    (pc \in {"hint", "join"} /\ pc' \notin {"hint", "join"}) =>
      /\ pc' = "predict"
      /\ (pc = "join" /\ user_input = <<>>) => user_hint' = NoHint
      /\ (pc = "join" /\ user_input # <<>>) =>
           user_hint' = HintGiven(Strip(user_input[1]))
      /\ ~user_hint'.given => UNCHANGED user_hints
      /\ UNCHANGED <<step, trajectory, history, inference_calls>>

C26_ReadByCurrent == ReadLine => (holder = "current" /\ pc = "join" /\ reader' = "done")
\* The line the thread of the iteration has read is the hint of the
\* inference call of that iteration, and is recorded once.
C26_Injected ==
    (pc = "join" /\ pc' = "predict" /\ user_input # <<>>) =>
      /\ user_hint' = HintGiven(Strip(user_input[1]))
      /\ Strip(user_input[1]) # <<>> =>
           user_hints' = Append(user_hints, Strip(user_input[1]))

\* C26: on the thread-based hint path every line the operator enters is
\* read by the reader of the iteration under way and is the hint of the
\* inference call of that iteration; no reader left from an earlier
\* iteration takes a line.
C26_NoStaleReader == [][C26_ReadByCurrent /\ C26_Injected]_vars


====
